---- MODULE Spec2Model ----
(***************************************************************************)
(* Model of the citro3d safe wrapper: the Instance lifecycle               *)
(* (citro3d/src/lib.rs) and the uniform binder (citro3d/src/uniform.rs).   *)
(* The hardware library is reached only through its primitives; the model  *)
(* keeps, on the hardware side, what those primitives were asked to do.    *)
(***************************************************************************)
EXTENDS Integers, Sequences, FiniteSets, TLC

\* Number of Instance handles a run may construct.
NumInstances == 2
\* Deepest nesting of render_frame_with activations explored.
MaxDepth == 2
\* Most frames begun and not ended that a run may accumulate.
MaxOpen == 2

VARIABLES
    instances,   \* handle -> "none" | "live" | "dropped"   (the Instance values)
    initResult,  \* handle -> "none" | "ok" | "failed"      (what C3D_Init returned)
    finiCount,   \* handle -> number of C3D_Fini calls made by its Drop
    stack,       \* the render_frame_with activations whose callback f is running
    openFrames,  \* C3D_FrameBegin calls minus C3D_FrameEnd calls
    hwBufInfo,   \* the hardware's active buffer-info slot (0 = null)
    hwAttrInfo,  \* the hardware's active attribute-info slot (0 = null)
    boundBuf,    \* descriptor most recently passed to a buffer-info binding
    boundAttr,   \* descriptor most recently passed to set_attr_info
    writes,      \* uniform register writes issued by the latest uniform upload
    last         \* the latest operation: its name, receiver, arguments, outcome

vars == <<instances, initResult, finiCount, stack, openFrames, hwBufInfo,
          hwAttrInfo, boundBuf, boundAttr, writes, last>>

lifecycleVars == <<instances, initResult, finiCount>>
frameVars == <<stack, openFrames>>
infoVars == <<hwBufInfo, hwAttrInfo, boundBuf, boundAttr>>

InstanceIds == 1..NumInstances

----------------------------------------------------------------------------
(* Input domains *)

\* Command buffer sizes handed to with_cmdbuf_size; 262144 is the default.
CmdbufSizes == {65536, 262144}

\* Index(u8)
Indices == 0..255

\* i8, the raw index of update_vertex_uniform_mat4x4
RawIndices == -128..127

\* shader::Type
ShaderTypes == {"Vertex", "Geometry"}

FVec4(a) == [x |-> a, y |-> a + 1, z |-> a + 2, w |-> a + 3]

\* A matrix, by its four rows
Matrix4(a) == [x |-> FVec4(a), y |-> FVec4(a + 4), z |-> FVec4(a + 8), w |-> FVec4(a + 12)]

Matrices == {Matrix4(10)}

\* enum Uniform, with sample payloads
Uniforms ==
    {[tag |-> "Float", val |-> FVec4(10)]}
    \cup {[tag |-> "Float2", val |-> <<FVec4(10), FVec4(20)>>]}
    \cup {[tag |-> "Float3", val |-> <<FVec4(30), FVec4(10), FVec4(20)>>]}
    \cup {[tag |-> "Float4", val |-> m] : m \in Matrices}
    \cup {[tag |-> "Bool", val |-> b] : b \in BOOLEAN}
    \cup {[tag |-> "Int", val |-> FVec4(1)]}

\* buffer::Info and attrib::Info descriptors, by value
BufInfos == {1, 2}
AttrInfos == {1, 2}

Primitives == {"Triangles", "TriangleStrip"}

\* buffer::Slice: its descriptor, first index and length
Slices == [info : BufInfos, index : {0}, len : {3}]

Targets == {"top"}

NoOp == [op |-> "none", inst |-> 0, arg |-> <<>>, val |-> "none", data |-> 0]

Done(op, i, arg, val, data) ==
    last' = [op |-> op, inst |-> i, arg |-> arg, val |-> val, data |-> data]

----------------------------------------------------------------------------
(* Uniform binder: uniform.rs *)

\* Range<Index>::contains
contains(r, index) == r.start <= index /\ index < r.end

index_range_mut(u) ==
    CASE u.tag \in {"Float", "Float2", "Float3", "Float4"} -> [start |-> 0, end |-> 96]
      [] u.tag = "Int" -> [start |-> 96, end |-> 100]
      [] u.tag = "Bool" -> [start |-> 100, end |-> 121]

index_range(u) ==
    CASE u.tag \in {"Float", "Float2", "Float3", "Float4"} -> [start |-> 0, end |-> 96]
      [] u.tag = "Int" -> [start |-> 96, end |-> 100]
      [] u.tag = "Bool" -> [start |-> 104, end |-> 121]

len(u) ==
    CASE u.tag = "Float" -> 1
      [] u.tag = "Float2" -> 2
      [] u.tag = "Float3" -> 3
      [] u.tag = "Float4" -> 4
      [] u.tag \in {"Bool", "Int"} -> 1

\* The second assertion with a strict comparison.
bind_asserts_strict(u, index) ==
    /\ contains(index_range(u), index)
    /\ index_range(u).end > len(u) + index

\* The second assertion dropped.
bind_asserts_first_only(u, index) ==
    contains(index_range(u), index)

\* The two assertions of bind: TRUE when neither fires.
bind_asserts(u, index) ==
    /\ contains(index_range(u), index)
    /\ index_range(u).end >= len(u) + index

\* From<shader::Type> for the hardware's shader-stage constant
ShaderTypeInto(ty) ==
    IF ty = "Vertex" THEN "GPU_VERTEX_SHADER" ELSE "GPU_GEOMETRY_SHADER"

\* Matrix4::rows_wzyx
rows_wzyx(m) == <<m.w, m.z, m.y, m.x>>

\* Every element written at the base index.
set_fvs_no_offset(ty, index, fs) ==
    [k \in 1..Len(fs) |->
        [prim |-> "C3D_FVUnifSet", ty |-> ShaderTypeInto(ty), id |-> index,
         x |-> fs[k].x, y |-> fs[k].y, z |-> fs[k].z, w |-> fs[k].w]]

\* The closure set_fvs of bind: one C3D_FVUnifSet per element
set_fvs(ty, index, fs) ==
    [k \in 1..Len(fs) |->
        [prim |-> "C3D_FVUnifSet", ty |-> ShaderTypeInto(ty), id |-> index + (k - 1),
         x |-> fs[k].x, y |-> fs[k].y, z |-> fs[k].z, w |-> fs[k].w]]

\* The match of bind: the hardware writes of an accepted bind
bind_upload(u, ty, index) ==
    CASE u.tag = "Bool" ->
            <<[prim |-> "C3D_BoolUnifSet", ty |-> ShaderTypeInto(ty), id |-> index,
               b |-> u.val]>>
      [] u.tag = "Int" ->
            <<[prim |-> "C3D_IVUnifSet", ty |-> ShaderTypeInto(ty), id |-> index,
               x |-> u.val.x, y |-> u.val.y, z |-> u.val.z, w |-> u.val.w]>>
      [] u.tag = "Float" -> set_fvs(ty, index, <<u.val>>)
      [] u.tag = "Float2" -> set_fvs(ty, index, u.val)
      [] u.tag = "Float3" -> set_fvs(ty, index, u.val)
      [] u.tag = "Float4" -> set_fvs(ty, index, rows_wzyx(u.val))

\* A panic unwinds out of some of the running callbacks; none of the
\* render_frame_with activations it leaves reaches its C3D_FrameEnd.
Unwind(k) == stack' = SubSeq(stack, 1, k)

\* Uniform::bind(self, _instance, ty, index)
bind(i, u, ty, index) ==
    /\ instances[i] = "live"
    /\ IF bind_asserts(u, index)
       THEN /\ writes' = bind_upload(u, ty, index)
            /\ Done("bind", i, [uniform |-> u, ty |-> ty, index |-> index], "unit", 0)
            /\ UNCHANGED stack
       ELSE /\ writes' = <<>>
            /\ Done("bind", i, [uniform |-> u, ty |-> ty, index |-> index], "panic", 0)
            /\ \E k \in 0..Len(stack) : Unwind(k)
    /\ UNCHANGED <<lifecycleVars, openFrames, infoVars>>

\* Instance::update_vertex_uniform_mat4x4(&mut self, index: i8, matrix)
update_vertex_uniform_mat4x4(i, index, matrix) ==
    /\ instances[i] = "live"
    /\ writes' = <<[prim |-> "C3D_FVUnifMtx4x4", ty |-> "GPU_VERTEX_SHADER",
                    id |-> index, mtx |-> matrix]>>
    /\ Done("update_vertex_uniform_mat4x4", i, [index |-> index, matrix |-> matrix],
            "unit", 0)
    /\ UNCHANGED <<lifecycleVars, frameVars, infoVars>>

----------------------------------------------------------------------------
(* Instance: lib.rs *)

\* Instance::with_cmdbuf_size(size); ok is the answer of C3D_Init(size)
with_cmdbuf_size(i, size, ok) ==
    /\ instances[i] = "none" /\ initResult[i] = "none"
    /\ initResult' = [initResult EXCEPT ![i] = IF ok THEN "ok" ELSE "failed"]
    /\ IF ok
       THEN /\ instances' = [instances EXCEPT ![i] = "live"]
            /\ Done("with_cmdbuf_size", i, [size |-> size], "Ok", 0)
       ELSE /\ UNCHANGED instances
            /\ Done("with_cmdbuf_size", i, [size |-> size], "Err(FailedToInitialize)", 0)
    /\ UNCHANGED <<finiCount, frameVars, infoVars, writes>>

\* Instance::new()
new(i, ok) == with_cmdbuf_size(i, 262144, ok)

\* Instance::select_render_target(target); ok is the answer of C3D_FrameDrawOn
select_render_target(i, target, ok) ==
    /\ instances[i] = "live"
    /\ Done("select_render_target", i, [target |-> target],
            IF ok THEN "Ok" ELSE "Err(InvalidRenderTarget)", 0)
    /\ UNCHANGED <<lifecycleVars, frameVars, infoVars, writes>>

\* Instance::render_frame_with(f), up to the call of f: C3D_FrameBegin
render_frame_with_begin(i) ==
    /\ instances[i] = "live"
    /\ Len(stack) < MaxDepth
    /\ openFrames < MaxOpen
    /\ openFrames' = openFrames + 1
    /\ stack' = Append(stack, i)
    /\ Done("render_frame_with.begin", i, <<>>, "unit", 0)
    /\ UNCHANGED <<lifecycleVars, infoVars, writes>>

\* Instance::render_frame_with(f), from the return of f: C3D_FrameEnd
render_frame_with_end ==
    /\ Len(stack) > 0
    /\ openFrames' = openFrames - 1
    /\ stack' = SubSeq(stack, 1, Len(stack) - 1)
    /\ Done("render_frame_with.end", stack[Len(stack)], <<>>, "unit", 0)
    /\ UNCHANGED <<lifecycleVars, infoVars, writes>>

\* The callback f of render_frame_with panics and the panic leaves k
\* activations standing
render_frame_with_unwind(k) ==
    /\ Len(stack) > 0
    /\ k < Len(stack)
    /\ Unwind(k)
    /\ Done("render_frame_with.unwind", stack[Len(stack)], <<>>, "panic", 0)
    /\ UNCHANGED <<lifecycleVars, openFrames, infoVars, writes>>

\* buffer::Info::copy_from / attrib::Info::copy_from: None for a null pointer
copy_from(raw) == IF raw = 0 THEN "None" ELSE "Some"

\* Instance::buffer_info()
buffer_info(i) ==
    /\ instances[i] = "live"
    /\ Done("buffer_info", i, <<>>, copy_from(hwBufInfo), hwBufInfo)
    /\ UNCHANGED <<lifecycleVars, frameVars, infoVars, writes>>

\* Instance::set_buffer_info(buffer_info): C3D_SetBufInfo copies the pointee
set_buffer_info(i, info) ==
    /\ instances[i] = "live"
    /\ hwBufInfo' = info
    /\ boundBuf' = info
    /\ Done("set_buffer_info", i, [info |-> info], "unit", 0)
    /\ UNCHANGED <<lifecycleVars, frameVars, hwAttrInfo, boundAttr, writes>>

\* Instance::attr_info()
attr_info(i) ==
    /\ instances[i] = "live"
    /\ Done("attr_info", i, <<>>, copy_from(hwAttrInfo), hwAttrInfo)
    /\ UNCHANGED <<lifecycleVars, frameVars, infoVars, writes>>

\* Instance::set_attr_info(attr_info): C3D_SetAttrInfo copies the pointee
set_attr_info(i, info) ==
    /\ instances[i] = "live"
    /\ hwAttrInfo' = info
    /\ boundAttr' = info
    /\ Done("set_attr_info", i, [info |-> info], "unit", 0)
    /\ UNCHANGED <<lifecycleVars, frameVars, hwBufInfo, boundBuf, writes>>

\* The draw call issued without rebinding the slice's descriptor.
draw_arrays_no_rebind(i, primitive, index) ==
    /\ instances[i] = "live"
    /\ boundBuf' = index.info
    /\ Done("draw_arrays", i, [primitive |-> primitive, index |-> index], "unit",
            [prim |-> "C3D_DrawArrays", primitive |-> primitive,
             first |-> index.index, count |-> index.len, buf |-> hwBufInfo])
    /\ UNCHANGED <<lifecycleVars, frameVars, hwBufInfo, hwAttrInfo, boundAttr, writes>>

\* Instance::draw_arrays(primitive, index): set_buffer_info(index.info()),
\* then C3D_DrawArrays
draw_arrays(i, primitive, index) ==
    /\ instances[i] = "live"
    /\ hwBufInfo' = index.info
    /\ boundBuf' = index.info
    /\ Done("draw_arrays", i, [primitive |-> primitive, index |-> index], "unit",
            [prim |-> "C3D_DrawArrays", primitive |-> primitive,
             first |-> index.index, count |-> index.len, buf |-> hwBufInfo'])
    /\ UNCHANGED <<lifecycleVars, frameVars, hwAttrInfo, boundAttr, writes>>

\* A Drop that never finalizes the hardware context.
drop_no_fini(i) ==
    /\ instances[i] = "live"
    /\ \A k \in 1..Len(stack) : stack[k] # i
    /\ instances' = [instances EXCEPT ![i] = "dropped"]
    /\ Done("drop", i, <<>>, "unit", 0)
    /\ UNCHANGED <<initResult, finiCount, frameVars, infoVars, writes>>

\* Drop for Instance: C3D_Fini. An Instance borrowed by a running
\* render_frame_with cannot be dropped.
drop(i) ==
    /\ instances[i] = "live"
    /\ \A k \in 1..Len(stack) : stack[k] # i
    /\ instances' = [instances EXCEPT ![i] = "dropped"]
    /\ finiCount' = [finiCount EXCEPT ![i] = @ + 1]
    /\ Done("drop", i, <<>>, "unit", 0)
    /\ UNCHANGED <<initResult, frameVars, infoVars, writes>>

----------------------------------------------------------------------------
(* Specifications *)

Init ==
    /\ instances = [i \in InstanceIds |-> "none"]
    /\ initResult = [i \in InstanceIds |-> "none"]
    /\ finiCount = [i \in InstanceIds |-> 0]
    /\ stack = <<>>
    /\ openFrames = 0
    /\ hwBufInfo = 0
    /\ hwAttrInfo = 0
    /\ boundBuf = 0
    /\ boundAttr = 0
    /\ writes = <<>>
    /\ last = NoOp

\* The Instance lifecycle, frames, descriptor bindings and draws
Next ==
    \/ \E i \in InstanceIds, ok \in BOOLEAN : new(i, ok)
    \/ \E i \in InstanceIds, size \in CmdbufSizes, ok \in BOOLEAN :
          with_cmdbuf_size(i, size, ok)
    \/ \E i \in InstanceIds, t \in Targets, ok \in BOOLEAN : select_render_target(i, t, ok)
    \/ \E i \in InstanceIds : render_frame_with_begin(i)
    \/ render_frame_with_end
    \/ \E k \in 0..MaxDepth : render_frame_with_unwind(k)
    \/ \E i \in InstanceIds : buffer_info(i)
    \/ \E i \in InstanceIds, b \in BufInfos : set_buffer_info(i, b)
    \/ \E i \in InstanceIds : attr_info(i)
    \/ \E i \in InstanceIds, a \in AttrInfos : set_attr_info(i, a)
    \/ \E i \in InstanceIds, p \in Primitives, s \in Slices : draw_arrays(i, p, s)
    \/ \E i \in InstanceIds : drop(i)

Spec == Init /\ [][Next]_vars

\* The state right after a first successful Instance::new()
InitUniform ==
    /\ instances = [i \in InstanceIds |-> IF i = 1 THEN "live" ELSE "none"]
    /\ initResult = [i \in InstanceIds |-> IF i = 1 THEN "ok" ELSE "none"]
    /\ finiCount = [i \in InstanceIds |-> 0]
    /\ stack = <<>>
    /\ openFrames = 0
    /\ hwBufInfo = 0
    /\ hwAttrInfo = 0
    /\ boundBuf = 0
    /\ boundAttr = 0
    /\ writes = <<>>
    /\ last = [op |-> "with_cmdbuf_size", inst |-> 1, arg |-> [size |-> 262144],
               val |-> "Ok", data |-> 0]

\* Uniform uploads, in any number and order, on the constructed Instance
NextUniform ==
    \/ \E i \in InstanceIds, u \in Uniforms, ty \in ShaderTypes, index \in Indices :
          bind(i, u, ty, index)
    \/ \E i \in InstanceIds, index \in RawIndices, m \in Matrices :
          update_vertex_uniform_mat4x4(i, index, m)

SpecUniform == InitUniform /\ [][NextUniform]_vars

----------------------------------------------------------------------------
(* Properties of the uniform binder, checked under SpecUniform *)

\* C1, as stated: bind(v, i) succeeds exactly when i lies in
\* [v.index_range().start, v.index_range().end - v.len()), and fails fast for
\* every other i, i = end - len included.
C1_BindSucceedsOnlyBelowEndMinusLen ==
    last.op = "bind" =>
        LET u == last.arg.uniform
            i == last.arg.index
            r == index_range(u)
        IN  (last.val = "unit") <=> (r.start <= i /\ i < r.end - len(u))

\* C1, amended: bind(v, i) succeeds exactly when i lies in the closed interval
\* [v.index_range().start, v.index_range().end - v.len()], and fails fast for
\* every other i in 0..=0xFF.
C1_BindSucceedsUpToEndMinusLen ==
    last.op = "bind" =>
        LET u == last.arg.uniform
            i == last.arg.index
            r == index_range(u)
        IN  /\ last.val \in {"unit", "panic"}
            /\ (r.start <= i /\ i <= r.end - len(u)) => last.val = "unit"
            /\ (i < r.start \/ i > r.end - len(u)) => last.val = "panic"

\* An accepted bind at the last index that still fits: i = end - len.
C1_Witness ==
    /\ last.op = "bind"
    /\ last.arg.uniform.tag = "Float3"
    /\ last.arg.index = index_range(last.arg.uniform).end - len(last.arg.uniform)
    /\ last.val = "unit"

\* C2: bind(v, i) fails fast exactly when i is outside v.index_range() or
\* i + v.len() > v.index_range().end, and otherwise dispatches the upload;
\* Int at 0x63 and Bool at 0x70 are accepted, Bool at 0x79 fails fast.
C2_BindRejectsExactlyOutOfRangeOrOverflow ==
    last.op = "bind" =>
        LET u == last.arg.uniform
            i == last.arg.index
            r == index_range(u)
            reject == ~(r.start <= i /\ i < r.end) \/ i + len(u) > r.end
        IN  /\ (last.val = "panic") <=> reject
            /\ reject => writes = <<>>
            /\ ~reject => last.val = "unit" /\ Len(writes) > 0
            /\ (u.tag = "Int" /\ i = 99) => last.val = "unit"
            /\ (u.tag = "Bool" /\ i = 112) => last.val = "unit"
            /\ (u.tag = "Bool" /\ i = 121) => last.val = "panic"

\* Int accepted at 0x63, the last register of its bank.
C2_Witness ==
    /\ last.op = "bind"
    /\ last.arg.uniform.tag = "Int"
    /\ last.arg.index = 99
    /\ last.val = "unit"
    /\ Len(writes) = 1

\* The registers one hardware write touches
RegistersOf(w) ==
    IF w.prim = "C3D_FVUnifMtx4x4" THEN w.id..(w.id + 3) ELSE {w.id}

\* C6: every uniform register write issued to the hardware targets registers
\* inside the bank of the value written: float and matrix rows in [0x00,0x60),
\* integer in [0x60,0x64), boolean in [0x68,0x79).
C6_WritesStayInsideTheirBank ==
    \A k \in 1..Len(writes) :
        LET w == writes[k]
        IN  RegistersOf(w) \subseteq
                (CASE w.prim \in {"C3D_FVUnifSet", "C3D_FVUnifMtx4x4"} -> 0..95
                   [] w.prim = "C3D_IVUnifSet" -> 96..99
                   [] w.prim = "C3D_BoolUnifSet" -> 104..120)

\* C7: an accepted bind at index i issues exactly v.len() writes: Float 1,
\* Float2 2, Float3 3 and Float4 4 float-register writes at i, i+1, ... in
\* element order (Float4: the rows w, z, y, x), Bool and Int one write at i;
\* every write goes to the shader stage the caller passed.
C7_BindIssuesLenConsecutiveWrites ==
    (last.op = "bind" /\ last.val = "unit") =>
        LET u == last.arg.uniform
            i == last.arg.index
            stage == IF last.arg.ty = "Vertex" THEN "GPU_VERTEX_SHADER"
                     ELSE "GPU_GEOMETRY_SHADER"
            elems == CASE u.tag = "Float" -> <<u.val>>
                       [] u.tag \in {"Float2", "Float3"} -> u.val
                       [] u.tag = "Float4" -> <<u.val.w, u.val.z, u.val.y, u.val.x>>
                       [] OTHER -> <<>>
            count == CASE u.tag = "Float" -> 1
                       [] u.tag = "Float2" -> 2
                       [] u.tag = "Float3" -> 3
                       [] u.tag = "Float4" -> 4
                       [] u.tag = "Bool" -> 1
                       [] u.tag = "Int" -> 1
        IN  /\ Len(writes) = count
            /\ \A k \in 1..Len(writes) : writes[k].ty = stage /\ writes[k].id = i + k - 1
            /\ u.tag \in {"Float", "Float2", "Float3", "Float4"} =>
                  /\ Len(elems) = count
                  /\ \A k \in 1..Len(writes) :
                        /\ writes[k].prim = "C3D_FVUnifSet"
                        /\ <<writes[k].x, writes[k].y, writes[k].z, writes[k].w>>
                              = <<elems[k].x, elems[k].y, elems[k].z, elems[k].w>>
            /\ u.tag = "Bool" =>
                  writes[1].prim = "C3D_BoolUnifSet" /\ writes[1].b = u.val
            /\ u.tag = "Int" =>
                  /\ writes[1].prim = "C3D_IVUnifSet"
                  /\ <<writes[1].x, writes[1].y, writes[1].z, writes[1].w>>
                        = <<u.val.x, u.val.y, u.val.z, u.val.w>>

\* A matrix accepted in the geometry stage: four writes were issued.
C7_Witness ==
    /\ last.op = "bind"
    /\ last.val = "unit"
    /\ last.arg.uniform.tag = "Float4"
    /\ last.arg.ty = "Geometry"
    /\ last.arg.index = 92
    /\ Len(writes) = 4

\* C8: index_range() is [0x00,0x60) for Float, Float2, Float3 and Float4,
\* [0x60,0x64) for Int and [0x68,0x79) for Bool; the banks are pairwise
\* disjoint and none includes the gap [0x64,0x68). An accepted bind therefore
\* starts inside the bank of its variant.
C8_IndexRangeIsTheBank ==
    /\ \A u \in Uniforms :
          /\ u.tag \in {"Float", "Float2", "Float3", "Float4"} =>
                index_range(u) = [start |-> 0, end |-> 96]
          /\ u.tag = "Int" => index_range(u) = [start |-> 96, end |-> 100]
          /\ u.tag = "Bool" => index_range(u) = [start |-> 104, end |-> 121]
          /\ \A g \in 100..103 : ~contains(index_range(u), g)
    /\ \A u, v \in Uniforms :
          index_range(u) # index_range(v) =>
              \A g \in Indices : ~(contains(index_range(u), g) /\ contains(index_range(v), g))
    /\ (last.op = "bind" /\ last.val = "unit") =>
          LET t == last.arg.uniform.tag
              i == last.arg.index
          IN  /\ t \in {"Float", "Float2", "Float3", "Float4"} => i \in 0..95
              /\ t = "Int" => i \in 96..99
              /\ t = "Bool" => i \in 104..120

\* A Bool accepted at 0x68, the first register of its bank, right after the gap.
C8_Witness ==
    /\ last.op = "bind"
    /\ last.val = "unit"
    /\ last.arg.uniform.tag = "Bool"
    /\ last.arg.index = 104

----------------------------------------------------------------------------
(* Properties of the Instance, checked under Spec *)

LiveInstances == {i \in InstanceIds : instances[i] = "live"}

\* C3: every render_frame_with call invokes C3D_FrameEnd exactly once after
\* its C3D_FrameBegin, also when f unwinds: the frames begun and not ended
\* are exactly those of the calls still running.
C3_FrameEndOncePerCall == openFrames = Len(stack)

\* C4: at most one Instance is live at any point of an execution.
C4_AtMostOneLiveInstance == Cardinality(LiveInstances) <= 1

\* C5: between the C3D_FrameBegin of a render_frame_with call and its
\* C3D_FrameEnd no other C3D_FrameBegin is issued: calls never nest.
C5_NoNestedFrameBegin == Len(stack) <= 1

\* C9: a failed C3D_Init yields the initialization error, no Instance and no
\* C3D_Fini; a successful one is followed by exactly one C3D_Fini, at the
\* drop of the Instance, and no operation of an Instance issues a hardware
\* primitive after its C3D_Fini.
C9_InitFiniPairing ==
    /\ \A i \in InstanceIds :
          /\ initResult[i] = "none" => instances[i] = "none" /\ finiCount[i] = 0
          /\ initResult[i] = "failed" => instances[i] = "none" /\ finiCount[i] = 0
          /\ initResult[i] = "ok" =>
                \/ instances[i] = "live" /\ finiCount[i] = 0
                \/ instances[i] = "dropped" /\ finiCount[i] = 1
    /\ last.op = "with_cmdbuf_size" =>
          /\ initResult[last.inst] = "failed" <=> last.val = "Err(FailedToInitialize)"
          /\ initResult[last.inst] = "ok" <=> last.val = "Ok"
    /\ last.op \notin {"none", "with_cmdbuf_size", "drop"} => finiCount[last.inst] = 0
    /\ last.op = "drop" => finiCount[last.inst] = 1

\* One Instance was dropped after a successful init, another init failed.
C9_Witness ==
    /\ \E i \in InstanceIds : instances[i] = "dropped" /\ finiCount[i] = 1
    /\ \E j \in InstanceIds : initResult[j] = "failed"
    /\ last.op = "drop"

\* C10: buffer_info() returns a copy of the descriptor most recently bound by
\* set_buffer_info or by draw_arrays, which rebinds the slice's descriptor
\* before the draw call; attr_info() returns a copy of the descriptor most
\* recently bound by set_attr_info, which draw_arrays leaves alone.
C10_DescriptorRoundTrip ==
    /\ (last.op = "buffer_info" /\ boundBuf # 0) =>
          last.val = "Some" /\ last.data = boundBuf
    /\ (last.op = "attr_info" /\ boundAttr # 0) =>
          last.val = "Some" /\ last.data = boundAttr
    /\ last.op = "draw_arrays" =>
          /\ last.data.buf = last.arg.index.info
          /\ boundBuf = last.arg.index.info
    /\ last.op = "set_buffer_info" => boundBuf = last.arg.info
    /\ last.op = "set_attr_info" => boundAttr = last.arg.info
    /\ hwAttrInfo = boundAttr

\* buffer_info() returned the second descriptor while an attribute
\* descriptor was bound as well.
C10_Witness ==
    /\ last.op = "buffer_info"
    /\ last.val = "Some"
    /\ last.data = 2
    /\ boundAttr = 1

====
